---- MODULE Spec2Model ----
(***************************************************************************)
(* Fee Recommendation Ensemble Engine (src/ai/production_models.py) and    *)
(* its asynchronous callers (src/ai/main.py).                              *)
(*                                                                         *)
(* The predictor is a process-wide singleton built at import time.  Its    *)
(* handlers run as coroutines on one event loop: a coroutine keeps the     *)
(* thread until it reaches an await.  Exceptions are modelled as inputs    *)
(* (which stage raises) drawn from small sets.                             *)
(*                                                                         *)
(* Units: inside the engine a fee is an integer number of 1e-3 percent and *)
(* a mean is kept exact as a fraction <<num, den>>; a fee in a returned    *)
(* record (rounded to 4 decimals) is an integer number of 1e-4 percent.    *)
(* Confidences are integers in permille.                                   *)
(***************************************************************************)
EXTENDS Integers, Sequences, FiniteSets, TLC

VARIABLES
    phase,            \* position of the import-time construction
    models,           \* self.models: member -> artifact
    scalers,          \* self.scalers: member -> scaler artifact
    feature_columns,  \* self.feature_columns
    is_trained,       \* self.is_trained
    best_model_name,  \* self.best_model_name
    disk,             \* the files under models/production/
    fetching,         \* predict calls suspended at their await (line 603)
    queued,           \* retrain() background tasks not yet started
    trainers,         \* the train_models calls in progress, with their locals
    running,          \* run number of the call that holds the thread, or 0
    trainRuns,        \* number of train_models calls started so far
    lazyRuns,         \* train_models calls started from inside predict
    last,             \* record returned by a predict call in the last step
    trainLog,         \* outcome of a train_models call ended in the last step
    published,        \* the artifact set last made visible as a whole, if any
    probe,            \* feature vector handed to one function of the engine
    answer            \* what that function returned

vars == <<phase, models, scalers, feature_columns, is_trained, best_model_name,
          disk, fetching, queued, trainers, running, trainRuns, lazyRuns, last,
          trainLog, published, probe, answer>>

----------------------------------------------------------------------------
(* Bounds *)

MaxTasks == 2      \* request-handler coroutines alive at once
MaxRuns == 2       \* train_models calls per process
MaxSamples == 3    \* n_samples of one generator call

(* Program constants *)

BASE_FEE_RATE == 300       \* Config.BASE_FEE_RATE = 0.3
FALLBACK_CONFIDENCE == 400 \* _fallback_prediction: 0.4
FEE_MIN == 50              \* 0.05
FEE_MAX == 2500            \* 2.5
GAS_BASE == 28
GAS_SPAN == 372
ORACLE_FEE_MIN == 50       \* the oracle's clamp: 0.05
ORACLE_FEE_MAX == 2500     \* 2.5
GEN_GAS_BASE == 28         \* the generator's gas baseline
GEN_GAS_SPAN == 372
MA_WINDOW == 168           \* rows of the generator's moving averages

Members == <<"random_forest", "gradient_boosting", "neural_network">>
MemberSet == {Members[i] : i \in 1..Len(Members)}
NoName == "None"

Idx(m) == CHOOSE i \in 1..Len(Members) : Members[i] = m


----------------------------------------------------------------------------
(* Artifacts.  gen identifies the fit that produced the object: 0 is the   *)
(* object built by _initialize_models, 1 a fit made by an earlier process  *)
(* and found on disk, 1 + k the k-th train_models call of this process.    *)

NoneArt == [gen |-> -1, fit |-> FALSE]      \* the None placeholder
FreshArt == [gen |-> 0, fit |-> FALSE]      \* constructed, never fitted
Fitted(g) == [gen |-> g, fit |-> TRUE]
Built(g) == [gen |-> g, fit |-> FALSE]      \* keras model built, not fitted
MissingFile == [gen |-> -2, fit |-> FALSE]
CorruptFile == [gen |-> -3, fit |-> FALSE]

Exists(f) == f # MissingFile

initialize_models == [m \in MemberSet |->
                        IF m = "neural_network" THEN NoneArt ELSE FreshArt]
initialize_scalers == [m \in MemberSet |-> FreshArt]

(* Persisted state layout *)

NoMeta == [st |-> "missing", cols |-> "absent", best |-> NoName, stamp |-> 0]

FilesAll(f) == [m \in MemberSet |-> f]

EmptyDisk == [model |-> FilesAll(MissingFile), scaler |-> FilesAll(MissingFile),
              meta |-> NoMeta]

OkMeta(cols, best) == [st |-> "ok", cols |-> cols, best |-> best, stamp |-> 1]

FullDisk == [model |-> FilesAll(Fitted(1)),
             scaler |-> FilesAll(Fitted(1)),
             meta |-> OkMeta("codec", "gradient_boosting")]

DiskScenarios ==
    { EmptyDisk,
      FullDisk,
      [FullDisk EXCEPT !.model["neural_network"] = MissingFile],
      [FullDisk EXCEPT !.model["random_forest"] = MissingFile],
      [FullDisk EXCEPT !.scaler["gradient_boosting"] = MissingFile],
      [FullDisk EXCEPT !.model["gradient_boosting"] = CorruptFile],
      [FullDisk EXCEPT !.meta = OkMeta("codec", NoName)],
      [FullDisk EXCEPT !.meta = OkMeta("absent", "random_forest")],
      [FullDisk EXCEPT !.meta = OkMeta("foreign", "random_forest")],
      [FullDisk EXCEPT !.meta = OkMeta("reordered", "neural_network")],
      [FullDisk EXCEPT !.meta.st = "corrupt"],
      [EmptyDisk EXCEPT !.meta = OkMeta("codec", "random_forest")] }

(* The in-memory ensemble as one value *)

Ensemble == [models |-> models, scalers |-> scalers,
             feature_columns |-> feature_columns,
             is_trained |-> is_trained, best_model_name |-> best_model_name]

ArtSet(e) == [models |-> e.models, scalers |-> e.scalers,
              best_model_name |-> e.best_model_name]

(* _load_models: reads in the order rf.pkl, gb.pkl, nn.h5, then the three  *)
(* scalers; a missing file is skipped, an unreadable one raises and the    *)
(* except clause clears is_trained, keeping what was assigned before.      *)

LoadOrder == << <<"model", "random_forest">>, <<"model", "gradient_boosting">>,
                <<"model", "neural_network">>, <<"scaler", "random_forest">>,
                <<"scaler", "gradient_boosting">>,
                <<"scaler", "neural_network">> >>

FileAt(d, i) == IF LoadOrder[i][1] = "model" THEN d.model[LoadOrder[i][2]]
                ELSE d.scaler[LoadOrder[i][2]]

FirstCorrupt(d) ==
    IF \E i \in 1..Len(LoadOrder) : FileAt(d, i) = CorruptFile
    THEN CHOOSE i \in 1..Len(LoadOrder) :
            /\ FileAt(d, i) = CorruptFile
            /\ \A j \in 1..(i-1) : FileAt(d, j) # CorruptFile
    ELSE Len(LoadOrder) + 1

PosOf(kind, m) == CHOOSE i \in 1..Len(LoadOrder) : LoadOrder[i] = <<kind, m>>

load_models(e, d) ==
    IF d.meta.st = "missing" THEN e
    ELSE IF d.meta.st = "corrupt" THEN [e EXCEPT !.is_trained = FALSE]
    ELSE
      LET k == FirstCorrupt(d)
          Read(kind, m, old) ==
              LET f == IF kind = "model" THEN d.model[m] ELSE d.scaler[m]
              IN IF PosOf(kind, m) < k /\ Exists(f) THEN f ELSE old
      IN [models |-> [m \in MemberSet |-> Read("model", m, e.models[m])],
          scalers |-> [m \in MemberSet |-> Read("scaler", m, e.scalers[m])],
          feature_columns |-> IF d.meta.cols = "absent" THEN e.feature_columns
                              ELSE d.meta.cols,
          best_model_name |-> d.meta.best,
          is_trained |-> (k > Len(LoadOrder))]

(* A save that writes the artifacts and leaves an existing metadata.json   *)
(* as it is.                                                               *)
save_models_keeping_meta(e, d, fault) ==
    [model |-> [m \in MemberSet |->
                  IF e.models[m] = NoneArt THEN d.model[m] ELSE e.models[m]],
     scaler |-> [m \in MemberSet |-> e.scalers[m]],
     meta |-> IF d.meta.st = "ok" THEN d.meta
              ELSE [st |-> "ok", cols |-> e.feature_columns,
                    best |-> e.best_model_name, stamp |-> d.meta.stamp + 1]]

(* _save_models: writes the non-None models, then every scaler, then the   *)
(* metadata; a write that raises ends the save (the except clause only     *)
(* logs).  fault.at is the position of the write that raises (0: none),    *)
(* fault.trunc whether the interrupted write leaves a truncated file.      *)

MetaPos == Len(LoadOrder) + 1
NoSaveFault == [at |-> 0, trunc |-> FALSE]
SaveFaults == { [at |-> 0, trunc |-> FALSE], [at |-> 3, trunc |-> TRUE],
                [at |-> MetaPos, trunc |-> FALSE] }

Writes(fault, pos) == fault.at = 0 \/ pos < fault.at

save_models(e, d, fault) ==
    LET Put(kind, m, old) ==
            LET obj == IF kind = "model" THEN e.models[m] ELSE e.scalers[m]
                pos == PosOf(kind, m)
            IN IF obj = NoneArt THEN old
               ELSE IF Writes(fault, pos) THEN obj
               ELSE IF fault.at = pos /\ fault.trunc THEN CorruptFile
               ELSE old
    IN [model |-> [m \in MemberSet |-> Put("model", m, d.model[m])],
        scaler |-> [m \in MemberSet |-> Put("scaler", m, d.scaler[m])],
        meta |-> IF Writes(fault, MetaPos)
                 THEN [st |-> "ok", cols |-> e.feature_columns,
                       best |-> e.best_model_name, stamp |-> d.meta.stamp + 1]
                 ELSE IF fault.at = MetaPos /\ fault.trunc
                 THEN [d.meta EXCEPT !.st = "corrupt"]
                 ELSE d.meta]

----------------------------------------------------------------------------
(* Exact fractions <<num, den>> with den > 0 *)

Lt(a, b) == a[1] * b[2] < b[1] * a[2]
Gt(a, b) == Lt(b, a)
EqF(a, b) == a[1] * b[2] = b[1] * a[2]
Int2F(i) == <<i, 1>>
AbsF(a) == IF a[1] < 0 THEN <<-a[1], a[2]>> ELSE a

(* round(x, ndigits): nearest multiple of unit, ties to the even multiple *)
RoundTo(q, unit) ==
    LET D == q[2] * unit
        k == q[1] \div D
        r == q[1] - k * D
    IN IF 2 * r < D THEN k * unit
       ELSE IF 2 * r > D THEN (k + 1) * unit
       ELSE IF k % 2 = 0 THEN k * unit ELSE (k + 1) * unit

(* round(fee, 4): a fee in 1e-3 units to the nearest 1e-4 *)
Round4(q) == RoundTo(<<q[1] * 10, q[2]>>, 1)

RECURSIVE SumOver(_, _)
SumOver(f, S) == IF S = {} THEN 0
                 ELSE LET x == CHOOSE y \in S : TRUE
                      IN f[x] + SumOver(f, S \ {x})

----------------------------------------------------------------------------
(* Market-data snapshots.  cg is the 'coingecko' sub-record: "absent" (no  *)
(* key), "null" (None), "empty" ({}) or "rec"; price says whether the      *)
(* sub-record carries price_usd; bad marks a non-numeric field; gas = -1   *)
(* means that no network sub-record is supplied.                           *)

NoneMD == [top |-> "none", cg |-> "absent", price |-> FALSE, bad |-> FALSE,
           volatility |-> 0, volume_24h |-> 0, price_change_24h |-> 0,
           market_cap |-> 0, gas |-> -1]

Rec(price, vol, v24, pc, mc, gas) ==
    [top |-> "dict", cg |-> "rec", price |-> price, bad |-> FALSE,
     volatility |-> vol, volume_24h |-> v24, price_change_24h |-> pc,
     market_cap |-> mc, gas |-> gas]

Snapshots ==
    { [NoneMD EXCEPT !.top = "dict"],                      \* {}
      [NoneMD EXCEPT !.top = "notdict"],                   \* no .get
      [NoneMD EXCEPT !.top = "dict", !.cg = "null"],
      [NoneMD EXCEPT !.top = "dict", !.cg = "empty"],
      [Rec(TRUE, 5, 900, 2, 15000, 30) EXCEPT !.bad = TRUE],
      Rec(FALSE, 5, 900, 2, 15000, 30),
      Rec(TRUE, 1, 900, 0, 15000, 18),
      Rec(TRUE, 10, 500, -6, 0, -1),
      Rec(TRUE, 5, 0, 2, 15000, 30),
      Rec(TRUE, 22, 50, 18, 28000, 300) }

Clocks == { [hour |-> 3, day |-> 0], [hour |-> 12, day |-> 5] }

IsRec(md) == md.top = "dict" /\ md.cg = "rec" /\ ~md.bad

DefaultClock == [hour |-> 12, day |-> 5]

Unavailable == [ok |-> FALSE]

(* The codec with the moving average taken as half the volume *)
extract_features_half_average(md, now) ==
    IF md.top = "notdict" THEN Unavailable
    ELSE IF md.cg # "rec" THEN Unavailable
    ELSE IF md.bad THEN Unavailable
    ELSE
      LET gas_price_gwei == IF md.gas = -1 THEN GAS_BASE ELSE md.gas
          volume_ma_7d == <<md.volume_24h * 50, 100>>
      IN [ok |-> TRUE,
          volatility |-> md.volatility,
          volume_24h |-> md.volume_24h,
          price_change_1h |-> <<md.price_change_24h * 8, 100>>,
          price_change_24h |-> md.price_change_24h,
          market_cap |-> md.market_cap,
          gas_price_gwei |-> gas_price_gwei,
          liquidity_score |-> IF md.market_cap > 0
                              THEN <<md.volume_24h * 100, md.market_cap>>
                              ELSE <<0, 1>>,
          hour_of_day |-> now.hour,
          day_of_week |-> now.day,
          volume_ma_7d |-> volume_ma_7d,
          volatility_ma_7d |-> <<md.volatility * 108, 100>>,
          price_momentum |-> <<md.price_change_24h * 115, 100>>,
          volume_ratio |-> IF volume_ma_7d[1] > 0
                           THEN <<md.volume_24h * 100, volume_ma_7d[1]>>
                           ELSE <<1, 1>>,
          gas_trend |-> <<gas_price_gwei - GAS_BASE, GAS_SPAN>>]

(* _extract_features_from_market_data *)
extract_features_from_market_data(md, now) ==
    IF md.top = "notdict" THEN Unavailable          \* AttributeError, caught
    ELSE IF md.cg # "rec" THEN Unavailable          \* `if not coingecko`
    ELSE IF md.bad THEN Unavailable                 \* TypeError, caught
    ELSE
      LET gas_price_gwei == IF md.gas = -1 THEN GAS_BASE ELSE md.gas
          volume_ma_7d == <<md.volume_24h * 92, 100>>
      IN [ok |-> TRUE,
          volatility |-> md.volatility,
          volume_24h |-> md.volume_24h,
          price_change_1h |-> <<md.price_change_24h * 8, 100>>,
          price_change_24h |-> md.price_change_24h,
          market_cap |-> md.market_cap,
          gas_price_gwei |-> gas_price_gwei,
          liquidity_score |-> IF md.market_cap > 0
                              THEN <<md.volume_24h * 100, md.market_cap>>
                              ELSE <<0, 1>>,
          hour_of_day |-> now.hour,
          day_of_week |-> now.day,
          volume_ma_7d |-> volume_ma_7d,
          volatility_ma_7d |-> <<md.volatility * 108, 100>>,
          price_momentum |-> <<md.price_change_24h * 115, 100>>,
          volume_ratio |-> IF volume_ma_7d[1] > 0
                           THEN <<md.volume_24h * 100, volume_ma_7d[1]>>
                           ELSE <<1, 1>>,
          gas_trend |-> <<gas_price_gwei - GAS_BASE, GAS_SPAN>>]

(* _calculate_model_confidence, in permille *)
base_confidence(model_name) ==
    CASE model_name = "random_forest" -> 870
      [] model_name = "gradient_boosting" -> 840
      [] model_name = "neural_network" -> 810
      [] OTHER -> 750

confidence_adjustments(x) ==
      (IF x.volatility > 20 THEN -150
       ELSE IF x.volatility > 12 THEN -80
       ELSE IF x.volatility < 2 THEN 50 ELSE 0)
    + (IF Gt(x.volume_ratio, <<2, 1>>) \/ Lt(x.volume_ratio, <<4, 10>>)
       THEN -80 ELSE 0)
    + (IF Gt(AbsF(x.gas_trend), <<7, 10>>) THEN -60 ELSE 0)

Max(a, b) == IF a > b THEN a ELSE b
Min(a, b) == IF a < b THEN a ELSE b
Abs(i) == IF i < 0 THEN -i ELSE i

(* The confidence clamped to [0.6, 0.9] *)
calculate_model_confidence_narrow(model_name, x) ==
    Max(600, Min(base_confidence(model_name) + confidence_adjustments(x), 900))

(* Every penalty counted twice and the result not clamped *)
calculate_model_confidence_unclamped(model_name, x) ==
    base_confidence(model_name) + 2 * confidence_adjustments(x)

calculate_model_confidence(model_name, x) ==
    Max(400, Min(base_confidence(model_name) + confidence_adjustments(x), 950))

(* The classifier with the stable rule tested before stable_liquid *)
classify_market_condition_reordered(x) ==
    LET apc == IF x.price_change_24h < 0 THEN -x.price_change_24h
               ELSE x.price_change_24h
    IN IF x.volatility > 20 /\ apc > 15 THEN "extreme_volatility"
       ELSE IF x.volatility > 12 /\ Gt(x.gas_trend, <<4, 10>>)
            THEN "high_volatility_congested"
       ELSE IF x.volatility > 8 THEN "high_volatility"
       ELSE IF x.volatility < 3 THEN "stable"
       ELSE IF x.volatility < 2 /\ Gt(x.volume_ratio, <<12, 10>>)
            THEN "stable_liquid"
       ELSE IF Gt(x.gas_trend, <<6, 10>>) THEN "network_congested"
       ELSE "moderate"

(* _classify_market_condition *)
classify_market_condition(x) ==
    LET apc == IF x.price_change_24h < 0 THEN -x.price_change_24h
               ELSE x.price_change_24h
    IN IF x.volatility > 20 /\ apc > 15 THEN "extreme_volatility"
       ELSE IF x.volatility > 12 /\ Gt(x.gas_trend, <<4, 10>>)
            THEN "high_volatility_congested"
       ELSE IF x.volatility > 8 THEN "high_volatility"
       ELSE IF x.volatility < 2 /\ Gt(x.volume_ratio, <<12, 10>>)
            THEN "stable_liquid"
       ELSE IF x.volatility < 3 THEN "stable"
       ELSE IF Gt(x.gas_trend, <<6, 10>>) THEN "network_congested"
       ELSE "moderate"

(* The reasoning with the time-of-day sentence ahead of the network one *)
reasoning_categories_time_first(x, preds, final) ==
    LET D == DOMAIN preds
        n == Cardinality(D)
        s1 == SumOver(preds, D)
        s2 == SumOver([m \in D |-> preds[m] * preds[m]], D)
        nvar == n * s2 - s1 * s1
        agreement == IF D = {} THEN << >>
                     ELSE IF nvar < (50 * n) * (50 * n)
                          THEN <<"agreement">>
                     ELSE IF nvar > (150 * n) * (150 * n)
                          THEN <<"agreement">>
                     ELSE << >>
        vola == IF x.volatility > 15 \/ x.volatility > 8 \/ x.volatility < 2
                THEN <<"volatility">> ELSE << >>
        volume == IF Gt(x.volume_ratio, <<15, 10>>)
                     \/ Lt(x.volume_ratio, <<7, 10>>)
                  THEN <<"volume">> ELSE << >>
        network == IF x.gas_price_gwei > 80 \/ x.gas_price_gwei < 20
                   THEN <<"network">> ELSE << >>
        time == IF x.hour_of_day \in {14, 15, 16} \/ x.hour_of_day \in {2, 3, 4, 5}
                THEN <<"time">> ELSE << >>
        deviation == IF final[1] * 10 > 15 * BASE_FEE_RATE * final[2]
                        \/ final[1] * 10 < 8 * BASE_FEE_RATE * final[2]
                     THEN <<"deviation">> ELSE << >>
    IN agreement \o vola \o volume \o time \o network \o deviation

(* _generate_production_reasoning: the categories of the sentences it      *)
(* appends, in order.  preds is the prediction map, final the clamped fee. *)
reasoning_categories(x, preds, final) ==
    LET D == DOMAIN preds
        n == Cardinality(D)
        s1 == SumOver(preds, D)
        s2 == SumOver([m \in D |-> preds[m] * preds[m]], D)
        nvar == n * s2 - s1 * s1                  \* n^2 * variance
        agreement == IF D = {} THEN << >>
                     ELSE IF nvar < (50 * n) * (50 * n)
                          THEN <<"agreement">>
                     ELSE IF nvar > (150 * n) * (150 * n)
                          THEN <<"agreement">>
                     ELSE << >>
        vola == IF x.volatility > 15 \/ x.volatility > 8 \/ x.volatility < 2
                THEN <<"volatility">> ELSE << >>
        volume == IF Gt(x.volume_ratio, <<15, 10>>)
                     \/ Lt(x.volume_ratio, <<7, 10>>)
                  THEN <<"volume">> ELSE << >>
        network == IF x.gas_price_gwei > 80 \/ x.gas_price_gwei < 20
                   THEN <<"network">> ELSE << >>
        time == IF x.hour_of_day \in {14, 15, 16} \/ x.hour_of_day \in {2, 3, 4, 5}
                THEN <<"time">> ELSE << >>
        deviation == IF final[1] * 10 > 15 * BASE_FEE_RATE * final[2]
                        \/ final[1] * 10 < 8 * BASE_FEE_RATE * final[2]
                     THEN <<"deviation">> ELSE << >>
    IN agreement \o vola \o volume \o network \o time \o deviation

(* Line 780: ". ".join(reasons) + ".", as the sequence of its pieces *)
RECURSIVE join_reasons(_)
join_reasons(reasons) ==
    IF reasons = << >> THEN <<".">>
    ELSE IF Len(reasons) = 1 THEN <<reasons[1], ".">>
    ELSE <<reasons[1], ". ">> \o join_reasons(Tail(reasons))

----------------------------------------------------------------------------
(* What a fitted member returns for a feature vector: a fixed function of  *)
(* the model artifact, its scaler and the features.                        *)

PredVals == <<312, 450, -20, 2600, 183>>

RawPred(m, art, sc, x) ==
    PredVals[((2 * art.gen + 3 * sc.gen + Idx(m) + x.volatility)
              % Len(PredVals)) + 1]

FeatureCount(cols) == IF cols = "foreign" THEN 3 ELSE 14

(* Faults injected into one predict call: the members whose transform or   *)
(* predict raises, and the later stage that raises, if any.                *)
NoInjection == [members |-> {}, stage |-> "none"]

Injections == { [NoInjection EXCEPT !.members = F] : F \in SUBSET MemberSet }
              \cup { [NoInjection EXCEPT !.stage = s] :
                        s \in {"blend", "reasoning", "classify"} }

EmptyMap == [m \in {} |-> 0]

(* _fallback_prediction; the g fields record how the call got there *)
fallback_prediction(g) ==
    [kind |-> "fallback",
     recommended_fee |-> BASE_FEE_RATE * 10,
     confidence |-> FALLBACK_CONFIDENCE,
     reasoning |-> <<"fallback_text">>,
     market_condition |-> "unknown",
     primary_model |-> "fallback",
     extras |-> FALSE,
     ensemble_prediction |-> 0,
     all_predictions |-> EmptyMap,
     model_confidences |-> EmptyMap,
     features_used |-> 0,
     g |-> g]

Raised(g) == [fallback_prediction(g) EXCEPT !.kind = "raised"]

Ghost(e, cause) ==
    [cause |-> cause,            \* why the call left the model path
     md |-> NoneMD,              \* the snapshot the call worked on
     evaluated |-> FALSE,        \* the member loop ran
     used |-> ArtSet(e),         \* artifact set the call computed from
     trained |-> e.is_trained,   \* is_trained when the member loop started
     failed |-> {},              \* members whose transform/predict raised
     absent |-> {},              \* members skipped because they are None
     raw |-> EmptyMap,           \* unrounded predictions
     conf |-> EmptyMap,          \* unrounded confidences
     headline |-> <<0, 1>>,      \* primary_prediction before the clamp
     ensemble |-> <<0, 1>>]      \* ensemble_prediction before rounding

(* The snapshot a returned record was computed from *)
Seen(r, md) == [r EXCEPT !.g.md = md]

(* Lines 615-638: the member loop *)
MemberRaises(e, m, inj) ==
    \/ e.feature_columns = "foreign"            \* KeyError on the columns
    \/ ~e.scalers[m].fit                        \* NotFittedError
    \/ (m # "neural_network" /\ ~e.models[m].fit)
    \/ m \in inj.members

Available(e, inj) ==
    {m \in MemberSet : e.models[m] # NoneArt /\ ~MemberRaises(e, m, inj)}

(* Lines 643-650: the primary prediction and its confidence *)
UseBest(e, preds) ==
    e.best_model_name # NoName /\ e.best_model_name \in DOMAIN preds

(* The confidence-weighted mean in place of np.mean at line 649 *)
primary_prediction_weighted(e, preds, confs) ==
    IF UseBest(e, preds) THEN <<preds[e.best_model_name], 1>>
    ELSE <<SumOver([m \in DOMAIN preds |-> preds[m] * confs[m]], DOMAIN preds),
           SumOver(confs, DOMAIN confs)>>

primary_prediction(e, preds, confs) ==
    IF UseBest(e, preds) THEN <<preds[e.best_model_name], 1>>
    ELSE <<SumOver(preds, DOMAIN preds), Cardinality(DOMAIN preds)>>

primary_confidence(e, preds, confs) ==
    IF UseBest(e, preds) THEN <<confs[e.best_model_name], 1>>
    ELSE <<SumOver(confs, DOMAIN confs), Cardinality(DOMAIN confs)>>

(* The plain mean in place of the weighted sum of lines 654-658 *)
ensemble_prediction_unweighted(preds, confs, primary) ==
    <<SumOver(preds, DOMAIN preds), Cardinality(DOMAIN preds)>>

(* Lines 652-660 *)
ensemble_prediction(preds, confs, primary) ==
    LET total_weight == SumOver(confs, DOMAIN confs)
    IN IF total_weight > 0
       THEN <<SumOver([m \in DOMAIN preds |-> preds[m] * confs[m]],
                      DOMAIN preds), total_weight>>
       ELSE primary

(* No constraint applied to the final prediction *)
ClampNone(q) == q

(* Line 666 *)
Clamp(q) == IF Lt(q, <<FEE_MIN, 1>>) THEN <<FEE_MIN, 1>>
            ELSE IF Gt(q, <<FEE_MAX, 1>>) THEN <<FEE_MAX, 1>>
            ELSE q

(* Lines 615-638: what the member loop leaves behind *)
member_loop(e, x, inj) ==
    LET avail == Available(e, inj)
    IN [preds |-> [m \in avail |-> RawPred(m, e.models[m], e.scalers[m], x)],
        confs |-> [m \in avail |-> calculate_model_confidence(m, x)],
        g |-> [Ghost(e, "none") EXCEPT
                 !.evaluated = TRUE,
                 !.failed = {m \in MemberSet : e.models[m] # NoneArt
                                                /\ MemberRaises(e, m, inj)},
                 !.absent = {m \in MemberSet : e.models[m] = NoneArt},
                 !.raw = [m \in avail |->
                            RawPred(m, e.models[m], e.scalers[m], x)],
                 !.conf = [m \in avail |-> calculate_model_confidence(m, x)]]]

(* Lines 643-687: blend, clamp, explain, classify, build the record *)
blend_and_report(e, x, inj, loop) ==
    IF inj.stage # "none" THEN Raised([loop.g EXCEPT !.cause = inj.stage])
    ELSE
      LET preds == loop.preds
          confs == loop.confs
          primary == primary_prediction(e, preds, confs)
          pconf == primary_confidence(e, preds, confs)
          ens == ensemble_prediction(preds, confs, primary)
          final == Clamp(primary)
      IN [kind |-> "model",
          recommended_fee |-> Round4(final),
          confidence |-> RoundTo(pconf, 1),
          reasoning |-> reasoning_categories(x, preds, final),
          market_condition |-> classify_market_condition(x),
          primary_model |-> e.best_model_name,
          extras |-> TRUE,
          ensemble_prediction |-> Round4(ens),
          all_predictions |-> [m \in DOMAIN preds |-> Round4(<<preds[m], 1>>)],
          model_confidences |-> confs,
          features_used |-> FeatureCount(e.feature_columns),
          g |-> [loop.g EXCEPT !.headline = primary, !.ensemble = ens]]

(* Without the test of line 640 an empty prediction map goes on to the     *)
(* blend: np.mean of nothing is nan and a model record is still built.     *)
predict_body_without_empty_test(e, x, inj) ==
    LET loop == member_loop(e, x, inj)
    IN IF DOMAIN loop.preds = {}
       THEN [fallback_prediction([loop.g EXCEPT !.cause = "no_member"]) EXCEPT
               !.kind = "model", !.primary_model = e.best_model_name,
               !.extras = TRUE, !.reasoning = <<"deviation">>]
       ELSE blend_and_report(e, x, inj, loop)

(* Lines 615-687, for an ensemble e and features x *)
predict_body(e, x, inj) ==
    LET loop == member_loop(e, x, inj)
    IN IF DOMAIN loop.preds = {}                               \* line 640
       THEN fallback_prediction([loop.g EXCEPT !.cause = "no_member"])
       ELSE blend_and_report(e, x, inj, loop)

(* An except clause that re-raises instead of returning the fallback *)
outer_reraise(r) == r

(* The try/except around the whole of predict_optimal_fee (lines 600, 689) *)
outer_except(r) == IF r.kind = "raised" THEN fallback_prediction(r.g) ELSE r

----------------------------------------------------------------------------
(* train_models, one step per member block.  A fault names the statement   *)
(* of the block that raises.                                               *)

TrainFaults == {"none", "scale", "fit", "eval"}
R2Vals == {80, 90}
TrainPcs == {"rf", "gb", "nn", "fin"}

MemberAt(pc) == CASE pc = "rf" -> "random_forest"
                  [] pc = "gb" -> "gradient_boosting"
                  [] pc = "nn" -> "neural_network"

NextPc(pc) == CASE pc = "rf" -> "gb" [] pc = "gb" -> "nn" [] pc = "nn" -> "fin"

GenOf(run) == 1 + run

(* Lines 376-412 (sklearn members) and 414-461 (neural member): the        *)
(* scaler and the model are refitted in place.                             *)
train_member(e, m, gen, fault) ==
    LET e1 == IF fault = "scale" THEN e
              ELSE [e EXCEPT !.scalers[m] = Fitted(gen)]
        e2 == IF fault = "scale" THEN e1
              ELSE IF m = "neural_network"
              THEN [e1 EXCEPT !.models[m] =
                        IF fault = "fit" THEN Built(gen) ELSE Fitted(gen)]
              ELSE IF fault = "fit" THEN e1
              ELSE [e1 EXCEPT !.models[m] = Fitted(gen)]
    IN e2

(* A maximum that keeps the last of several equal keys *)
best_of_last(results) ==
    LET D == DOMAIN results
    IN CHOOSE m \in D :
         /\ \A o \in D : results[o] <= results[m]
         /\ \A o \in D : results[o] = results[m] => Idx(o) <= Idx(m)

(* Line 464: max() keeps the first key with the largest test_r2 *)
best_of(results) ==
    LET D == DOMAIN results
    IN CHOOSE m \in D :
         /\ \A o \in D : results[o] <= results[m]
         /\ \A o \in D : results[o] = results[m] => Idx(m) <= Idx(o)

(* train_models without line 467 *)
train_finish_untrained(e, results) ==
    [e EXCEPT !.best_model_name = best_of(results)]

(* Lines 463-467 *)
train_finish(e, results) ==
    [e EXCEPT !.best_model_name = best_of(results), !.is_trained = TRUE]

----------------------------------------------------------------------------
(* Coroutines *)

InitEnsemble == [models |-> initialize_models, scalers |-> initialize_scalers,
                 feature_columns |-> "codec", is_trained |-> FALSE,
                 best_model_name |-> NoName]

NoTrain == [run |-> 0, caller |-> "none", status |-> "none", failed |-> "none",
            fault |-> "none", before |-> InitEnsemble, after |-> InitEnsemble,
            results |-> EmptyMap, save |-> NoSaveFault]

NoResult == [fallback_prediction(Ghost(InitEnsemble, "none")) EXCEPT
               !.kind = "none"]

RaiseMD == [NoneMD EXCEPT !.top = "raise"]   \* get_live_market_data raises

(* A coroutine gives up the thread only at an await: line 603 of predict   *)
(* ("fetch") and a background task waiting to be started ("queued").       *)
(* train_models contains no await.                                         *)
(* train_models with a suspension point between two member blocks *)
YieldsBetweenMembers(pc) == pc \in {"fetch", "queued", "gb"}

Yields(pc) == pc \in {"fetch", "queued"}

Hold(run, pc) == IF Yields(pc) THEN 0 ELSE run

(* The record a call returned is consumed by its caller in the same       *)
(* synchronous section (main.py builds the response, retrain() logs the    *)
(* metrics or the exception) before any other coroutine runs.              *)
Consumed == last = NoResult /\ trainLog = NoTrain

Ready(tr) == /\ Consumed
             /\ running = tr.run \/ (running = 0 /\ Yields(tr.pc))

(* Request-handler coroutines that exist *)
Alive == fetching + queued
         + Cardinality({tr \in trainers : tr.kind # "ctor"})

(* A step in which no call returns leaves nothing to observe *)
Quiet == last' = NoResult /\ trainLog' = NoTrain

SetEnsemble(e) ==
    /\ models' = e.models
    /\ scalers' = e.scalers
    /\ feature_columns' = e.feature_columns
    /\ is_trained' = e.is_trained
    /\ best_model_name' = e.best_model_name

SameEnsemble == UNCHANGED <<models, scalers, feature_columns, is_trained,
                            best_model_name>>

(* No function of the engine has been called on its own *)
NoProbe == [volatility |-> 0, volume_ratio |-> <<1, 1>>, gas_trend |-> <<0, 1>>,
            price_change_24h |-> 0]

NoRow == [volatility |-> 0, volume_ratio |-> <<1, 1>>, gas_trend |-> <<0, 1>>,
          hour_of_day |-> 0, day_of_week |-> 0, liquidity_score |-> <<0, 1>>,
          price_momentum |-> 0, price_change_24h |-> 0, gas_price_gwei |-> 0]

NoAnswer == [fn |-> "none", name |-> "", label |-> "", value |-> 0,
             row |-> NoRow, noise |-> 0, fee |-> <<0, 1>>, calls |-> << >>,
             md |-> NoneMD, now |-> DefaultClock, x |-> Unavailable,
             preds |-> EmptyMap, final |-> <<0, 1>>, reasons |-> << >>,
             text |-> << >>]

Init ==
    /\ phase = "init"
    /\ models = initialize_models
    /\ scalers = initialize_scalers
    /\ feature_columns = "codec"
    /\ is_trained = FALSE
    /\ best_model_name = NoName
    /\ disk \in DiskScenarios
    /\ fetching = 0
    /\ queued = 0
    /\ trainers = {}
    /\ running = 0
    /\ trainRuns = 0
    /\ lazyRuns = 0
    /\ last = NoResult
    /\ trainLog = NoTrain
    /\ published = {}
    /\ probe = NoProbe
    /\ answer = NoAnswer

(* An exception leaving train_models reaches the caller: the constructor   *)
(* lets it escape (the import fails), retrain() in main.py logs it, and    *)
(* predict_optimal_fee turns it into the fallback record.                  *)
AfterRaise(kind, e) ==
    /\ last' = IF kind = "predict"
               THEN outer_except(Raised(Ghost(e, "train"))) ELSE NoResult
    /\ phase' = IF kind = "ctor" THEN "crashed" ELSE phase
    /\ running' = 0

(* Lines 353-373 of train_models: the data set is generated and split;     *)
(* with column names the generator does not know this raises.              *)
BeginTrain(kind, e, md, now, inj) ==
    /\ trainRuns < MaxRuns
    /\ trainRuns' = trainRuns + 1
    /\ lazyRuns' = IF kind = "predict" THEN lazyRuns + 1 ELSE lazyRuns
    /\ SetEnsemble(e)
    /\ UNCHANGED <<disk, published>>
    /\ IF e.feature_columns = "foreign"
       THEN /\ trainLog' = [run |-> trainRuns + 1, caller |-> kind,
                            status |-> "raised", failed |-> "none",
                            fault |-> "data", before |-> e, after |-> e,
                            results |-> EmptyMap, save |-> NoSaveFault]
            /\ AfterRaise(kind, e)
            /\ UNCHANGED trainers
       ELSE /\ trainers' = trainers \cup
                 {[run |-> trainRuns + 1, kind |-> kind, pc |-> "rf",
                   results |-> EmptyMap, before |-> e, md |-> md,
                   now |-> now, inj |-> inj]}
            /\ running' = Hold(trainRuns + 1, "rf")
            /\ Quiet
            /\ UNCHANGED phase

(* __init__, lines 49-55: load, then train when nothing was loaded *)
CtorLoad ==
    /\ phase = "init"
    /\ trainers = {}
    /\ LET e == load_models(Ensemble, disk)
       IN IF e.is_trained
          THEN /\ SetEnsemble(e)
               /\ phase' = "ready"
               /\ published' = {ArtSet(e)}
               /\ Quiet
               /\ UNCHANGED <<disk, trainers, running, trainRuns, lazyRuns>>
          ELSE BeginTrain("ctor", e, NoneMD, DefaultClock, NoInjection)
    /\ UNCHANGED <<fetching, queued>>
    /\ UNCHANGED <<probe, answer>>

(* One member block of train_models *)
TrainMember(tr, fault, r2) ==
    /\ Ready(tr)
    /\ tr.pc \in {"rf", "gb", "nn"}
    /\ LET m == MemberAt(tr.pc)
           e == train_member(Ensemble, m, GenOf(tr.run), fault)
       IN /\ SetEnsemble(e)
          /\ IF fault = "none"
             THEN /\ trainers' = (trainers \ {tr}) \cup
                        {[tr EXCEPT
                           !.pc = NextPc(tr.pc),
                           !.results = [k \in DOMAIN tr.results \cup {m} |->
                                          IF k = m THEN r2 ELSE tr.results[k]]]}
                  /\ running' = Hold(tr.run, NextPc(tr.pc))
                  /\ Quiet
                  /\ UNCHANGED phase
             ELSE /\ trainLog' = [run |-> tr.run, caller |-> tr.kind,
                                  status |-> "raised", failed |-> m,
                                  fault |-> fault, before |-> tr.before,
                                  after |-> e, results |-> tr.results,
                                  save |-> NoSaveFault]
                  /\ trainers' = trainers \ {tr}
                  /\ AfterRaise(tr.kind, e)
    /\ UNCHANGED <<disk, fetching, queued, trainRuns, lazyRuns, published>>
    /\ UNCHANGED <<probe, answer>>

(* _save_models without its except clause: a failed write leaves           *)
(* train_models as an exception, after is_trained was set.                 *)
TrainFinishSaveRaises(tr, fault) ==
    /\ Ready(tr)
    /\ tr.pc = "fin"
    /\ LET e == train_finish(Ensemble, tr.results)
       IN /\ SetEnsemble(e)
          /\ disk' = save_models(e, disk, fault)
          /\ trainLog' = [run |-> tr.run, caller |-> tr.kind,
                          status |-> IF fault.at = 0 THEN "ok" ELSE "raised",
                          failed |-> "none", fault |-> "none",
                          before |-> tr.before, after |-> e,
                          results |-> tr.results, save |-> fault]
          /\ published' = {ArtSet(e)}
          /\ phase' = IF tr.kind # "ctor" THEN phase
                      ELSE IF fault.at = 0 THEN "ready" ELSE "crashed"
          /\ last' = IF tr.kind = "predict"
                     THEN Seen(outer_except(Raised(Ghost(e, "train"))), tr.md)
                     ELSE NoResult
    /\ trainers' = trainers \ {tr}
    /\ running' = 0
    /\ UNCHANGED <<fetching, queued, trainRuns, lazyRuns>>
    /\ UNCHANGED <<probe, answer>>

(* Lines 463-470: best model, is_trained, _save_models, return; then the   *)
(* caller goes on (predict runs its member loop).                          *)
TrainFinish(tr, fault) ==
    /\ Ready(tr)
    /\ tr.pc = "fin"
    /\ LET e == train_finish(Ensemble, tr.results)
       IN /\ SetEnsemble(e)
          /\ disk' = save_models(e, disk, fault)
          /\ trainLog' = [run |-> tr.run, caller |-> tr.kind, status |-> "ok",
                          failed |-> "none", fault |-> "none",
                          before |-> tr.before, after |-> e,
                          results |-> tr.results, save |-> fault]
          /\ published' = {ArtSet(e)}
          /\ phase' = IF tr.kind = "ctor" THEN "ready" ELSE phase
          /\ last' = IF tr.kind = "predict"
                     THEN Seen(outer_except(predict_body(e,
                            extract_features_from_market_data(tr.md, tr.now),
                            tr.inj)), tr.md)
                     ELSE NoResult
    /\ trainers' = trainers \ {tr}
    /\ running' = 0
    /\ UNCHANGED <<fetching, queued, trainRuns, lazyRuns>>
    /\ UNCHANGED <<probe, answer>>

Return(r) ==
    /\ last' = r
    /\ trainLog' = NoTrain
    /\ SameEnsemble
    /\ UNCHANGED <<phase, disk, trainers, running, trainRuns, lazyRuns,
                   published>>

(* predict that retrains whenever no best model is recorded *)
PredictComputeRetraining(md, now, inj) ==
    LET e == Ensemble
        x == extract_features_from_market_data(md, now)
    IN IF md.top = "raise"
       THEN Return(Seen(outer_except(Raised(Ghost(e, "fetch"))), md))
       ELSE IF ~x.ok
       THEN Return(Seen(fallback_prediction(Ghost(e, "unavailable")), md))
       ELSE IF ~e.is_trained \/ e.best_model_name = NoName
       THEN BeginTrain("predict", e, md, now, inj)
       ELSE Return(Seen(outer_except(predict_body(e, x, inj)), md))

(* predict_optimal_fee from line 605 on, without an await *)
PredictCompute(md, now, inj) ==
    LET e == Ensemble
        x == extract_features_from_market_data(md, now)
    IN IF md.top = "raise"
       THEN Return(Seen(outer_except(Raised(Ghost(e, "fetch"))), md))
       ELSE IF ~x.ok
       THEN Return(Seen(fallback_prediction(Ghost(e, "unavailable")), md))
       ELSE IF ~e.is_trained
       THEN BeginTrain("predict", e, md, now, inj)
       ELSE Return(Seen(outer_except(predict_body(e, x, inj)), md))

(* The inputs of one predict call: snapshot, wall clock, injected faults.   *)
(* The clock and the faults only matter once a feature vector exists.      *)
CallInputs ==
    { [md |-> md, now |-> DefaultClock, inj |-> NoInjection] :
        md \in {s \in Snapshots : ~IsRec(s)} }
    \cup { c \in [md : {s \in Snapshots : IsRec(s)}, now : Clocks,
                   inj : Injections] :
             /\ c.now # DefaultClock => c.md.volatility < 2 /\ c.inj = NoInjection
             /\ c.inj.stage # "none" => c.md.volatility < 2
             /\ c.inj.members # {} => c.md.price /\ c.md.volatility = 10 }

(* What get_live_market_data() hands back: the pipeline's dict, with or    *)
(* without a usable sub-record.  Faults of the member loop and of the      *)
(* later stages are explored on the calls that bring their own snapshot.   *)
FetchInputs == {c \in CallInputs : /\ c.md.top = "dict"
                                   /\ c.now = DefaultClock
                                   /\ c.inj = NoInjection}

NoCall == [md |-> NoneMD, now |-> DefaultClock, inj |-> NoInjection]
RaiseCall == [md |-> RaiseMD, now |-> DefaultClock, inj |-> NoInjection]

(* A request handler calls predict_optimal_fee(market_data) *)
PredictCall(md, now, inj) ==
    /\ phase = "ready"
    /\ Consumed
    /\ running = 0
    /\ Alive < MaxTasks
    /\ IF md = NoneMD
       THEN /\ fetching' = fetching + 1
            /\ Quiet
            /\ SameEnsemble
            /\ UNCHANGED <<phase, disk, queued, trainers, running, trainRuns,
                           lazyRuns, published>>
       ELSE /\ PredictCompute(md, now, inj)
            /\ UNCHANGED <<fetching, queued>>
    /\ UNCHANGED <<probe, answer>>

(* Line 603: the awaited get_live_market_data() completes *)
PredictFetched(md, now, inj) ==
    /\ Consumed
    /\ running = 0
    /\ fetching > 0
    /\ fetching' = fetching - 1
    /\ PredictCompute(md, now, inj)
    /\ UNCHANGED queued
    /\ UNCHANGED <<probe, answer>>

(* main.py, /retrain-models: the handler queues retrain() and returns *)
RetrainRequest ==
    /\ phase = "ready"
    /\ Consumed
    /\ running = 0
    /\ Alive < MaxTasks
    /\ trainRuns + queued < MaxRuns
    /\ queued' = queued + 1
    /\ Quiet
    /\ SameEnsemble
    /\ UNCHANGED <<phase, disk, fetching, trainers, running, trainRuns,
                   lazyRuns, published>>
    /\ UNCHANGED <<probe, answer>>

(* The background task runs: retrain() -> train_production_models() *)
RetrainRun ==
    /\ Consumed
    /\ running = 0
    /\ queued > 0
    /\ queued' = queued - 1
    /\ BeginTrain("retrain", Ensemble, NoneMD, DefaultClock, NoInjection)
    /\ UNCHANGED fetching
    /\ UNCHANGED <<probe, answer>>

(* main.py, lines 419-426 and 459-461: the caller uses what was returned *)
Respond ==
    /\ ~Consumed
    /\ Quiet
    /\ SameEnsemble
    /\ UNCHANGED <<phase, disk, fetching, queued, trainers, running, trainRuns,
                   lazyRuns, published>>
    /\ UNCHANGED <<probe, answer>>

Next ==
    \/ CtorLoad
    \/ \E tr \in trainers, f \in TrainFaults, r \in R2Vals : TrainMember(tr, f, r)
    \/ \E tr \in trainers, f \in SaveFaults : TrainFinish(tr, f)
    \/ \E c \in CallInputs \cup {NoCall} : PredictCall(c.md, c.now, c.inj)
    \/ \E c \in FetchInputs \cup {RaiseCall} : PredictFetched(c.md, c.now, c.inj)
    \/ RetrainRequest
    \/ RetrainRun
    \/ Respond

Spec == Init /\ [][Next]_vars

----------------------------------------------------------------------------
(* The optimal-fee oracle and the synthetic generator.  Generated rows     *)
(* carry volatility, the price changes and the momentum as fixed-point     *)
(* numbers in 1e-2, volumes and the market cap in units of ten million,    *)
(* the gas price in whole gwei, and the three derived fields as fractions. *)
(* Every float operation is a fixed-point one that rounds down.            *)

(* q * k rounded down, without forming q[1] * k *)
Scaled(q, k) == (q[1] \div q[2]) * k + ((q[1] % q[2]) * k) \div q[2]

(* Lines 264-342: the seven factors in 1e-4 and their weighted sum in 1e-6 *)
weighted_factors(row) ==
    LET volatility == row.volatility
        volume_ratio == row.volume_ratio
        gas_trend == row.gas_trend
        hour == row.hour_of_day
        day == row.day_of_week
        liquidity_score == row.liquidity_score
        price_momentum == Abs(row.price_momentum)
        price_change_24h == Abs(row.price_change_24h)
        vol_factor ==
            IF volatility > 1500 THEN 15000 + (volatility - 1500) * 8
            ELSE IF volatility > 800 THEN 12000 + (volatility - 800) * 4
            ELSE IF volatility < 200 THEN 7000 + volatility * 10
            ELSE 9000 + (volatility - 200) * 5
        volume_factor ==
            IF Gt(volume_ratio, <<15, 10>>) THEN 8500
            ELSE IF Gt(volume_ratio, <<12, 10>>)
                 THEN 9500 - Scaled(<<10 * volume_ratio[1] - 12 * volume_ratio[2],
                                      volume_ratio[2]>>, 330)
            ELSE IF Lt(volume_ratio, <<6, 10>>) THEN 12500
            ELSE IF Lt(volume_ratio, <<8, 10>>)
                 THEN 11000 + Scaled(<<8 * volume_ratio[2] - 10 * volume_ratio[1],
                                       volume_ratio[2]>>, 750)
            ELSE 10000
        gas_factor ==
            IF Gt(gas_trend, <<5, 10>>) THEN 13000 + Scaled(gas_trend, 4000)
            ELSE IF Gt(gas_trend, <<2, 10>>) THEN 11000 + Scaled(gas_trend, 5000)
            ELSE IF Lt(gas_trend, <<-2, 10>>) THEN 9000 + Scaled(gas_trend, 2000)
            ELSE 10000 + Scaled(gas_trend, 3000)
        hour_factor ==
            IF hour \in {14, 15, 16} THEN 11500
            ELSE IF hour \in {21, 22} THEN 10800
            ELSE IF hour \in {2, 3, 4, 5} THEN 8500
            ELSE 10000
        time_factor == IF day \in {5, 6} THEN (hour_factor * 92) \div 100
                       ELSE hour_factor
        momentum_factor == 10000 + Min(price_momentum * 10, 3000)
        liquidity_factor ==
            IF Gt(liquidity_score, <<8, 1>>) THEN 9000
            ELSE IF Gt(liquidity_score, <<4, 1>>) THEN 9500
            ELSE IF Lt(liquidity_score, <<1, 1>>) THEN 12000
            ELSE IF Lt(liquidity_score, <<2, 1>>) THEN 11000
            ELSE 10000
        stability_factor ==
            IF price_change_24h > 1000 THEN 11000 + (price_change_24h - 1000) * 2
            ELSE IF price_change_24h < 100 THEN 9500
            ELSE 10000
    IN vol_factor * 35 + volume_factor * 25 + gas_factor * 20
       + time_factor * 10 + momentum_factor * 5 + liquidity_factor * 3
       + stability_factor * 2

(* Lines 334-346: base_fee times the weighted sum, plus the noise; a fee   *)
(* in 1e-3 with the noise given in 1e-7                                    *)
noisy_fee(row, noise) ==
    LET s == weighted_factors(row)
    IN <<BASE_FEE_RATE * (s \div 100) + (BASE_FEE_RATE * (s % 100)) \div 100
         + noise, 10000>>

(* The oracle with the upper bound 3.0 in place of 2.5 *)
calculate_sophisticated_optimal_fee_below_3(row, noise) ==
    LET optimal_fee == noisy_fee(row, noise)
    IN IF Lt(optimal_fee, <<ORACLE_FEE_MIN, 1>>) THEN <<ORACLE_FEE_MIN, 1>>
       ELSE IF Gt(optimal_fee, <<3000, 1>>) THEN <<3000, 1>>
       ELSE optimal_fee

(* _calculate_sophisticated_optimal_fee; line 349 is the clamp *)
calculate_sophisticated_optimal_fee(row, noise) ==
    LET optimal_fee == noisy_fee(row, noise)
    IN IF Lt(optimal_fee, <<ORACLE_FEE_MIN, 1>>) THEN <<ORACLE_FEE_MIN, 1>>
       ELSE IF Gt(optimal_fee, <<ORACLE_FEE_MAX, 1>>) THEN <<ORACLE_FEE_MAX, 1>>
       ELSE optimal_fee

(* numpy's global generator: its state is the number of values drawn since *)
(* the seed was set; np.random.seed(42) puts it at Seeded whatever it was. *)
(* Each distribution is a fixed table read at the position of the draw.    *)
Seeded == 0

Pick(table, pos) == table[((pos * 3 + 2 * (pos \div 8)) % Len(table)) + 1]

Exponential4 == <<400, 100, 1200, 50, 2500>>          \* exponential(4.0), 1e-2
LogNormal04 == <<100, 67, 150, 220, 45>>              \* lognormal(0, 0.4), 1e-2
LogNormal03 == <<100, 74, 135, 180, 300>>             \* lognormal(0, 0.3), 1e-2
StdNormal == <<0, 100, -100, 250, -30>>               \* normal(0, 1), 1e-2
Uniform0812 == <<80, 119, 105, 92, 100>>              \* uniform(0.8, 1.2), 1e-2
Uniform0713 == <<108, 70, 129, 100, 85>>              \* uniform(0.7, 1.3), 1e-2
OracleNoise == <<0, 150000, -150000, 375000, -45000>> \* normal(0, 0.015), 1e-7

(* Lines 127, 131-133: the timestamp of sample i.  365 days are 52 weeks   *)
(* and one day, so the start keeps the hour and moves one weekday back.    *)
start_date(now) == [hour |-> now.hour, day |-> (now.day + 6) % 7]

hour_at(start, i) == (start.hour + i) % 24

day_at(start, i) == (start.day + (start.hour + i) \div 24) % 7

(* Values drawn before sample i: eight per sample while the moving         *)
(* averages are drawn (lines 224-225), six once they are computed          *)
DrawsBefore(i) == 8 * Min(i, MA_WINDOW) + 6 * Max(i - MA_WINDOW, 0)

RECURSIVE SumField(_, _, _, _)
SumField(data, field, from, to) ==
    IF from > to THEN 0
    ELSE IF from = to THEN data[to][field]
    ELSE LET mid == (from + to) \div 2
         IN SumField(data, field, from, mid) + SumField(data, field, mid + 1, to)

(* The gas trend around another baseline *)
generated_gas_trend_other_baseline(gas_price_gwei) ==
    <<gas_price_gwei - 20, GEN_GAS_SPAN>>

(* Lines 215, 229, 230: the derived fields of a generated row *)
generated_liquidity_score(volume_24h, market_cap) ==
    <<volume_24h * 100, market_cap>>

generated_volume_ratio(volume_24h, volume_ma_7d) ==
    IF volume_ma_7d[1] > 0
    THEN <<volume_24h * volume_ma_7d[2], volume_ma_7d[1]>>
    ELSE <<1, 1>>

generated_gas_trend(gas_price_gwei) ==
    <<gas_price_gwei - GEN_GAS_BASE, GEN_GAS_SPAN>>

(* Lines 130-238: row i (from 0) given the rows before it *)
generated_row(i, data, start) ==
    LET p == Seeded + DrawsBefore(i)
        hour_of_day == hour_at(start, i)
        day_of_week == day_at(start, i)
        time_vol_multiplier ==
            IF hour_of_day \in {14, 15, 16, 21, 22} THEN 14
            ELSE IF hour_of_day \in {2, 3, 4, 5} THEN 6 ELSE 10
        day_vol_multiplier ==
            IF day_of_week \in {0, 1, 2} THEN 12
            ELSE IF day_of_week \in {5, 6} THEN 7 ELSE 10
        drawn == Pick(Exponential4, p)
        clustered == IF i > 0 THEN (7 * data[i].volatility + 3 * drawn) \div 10
                     ELSE drawn
        volatility ==
            Max(50, Min((clustered * time_vol_multiplier * day_vol_multiplier)
                        \div 100, 3000))
        vol_volume_factor == 2000 + Min(volatility, 2000)          \* in 1/2000
        time_volume_factor ==
            IF hour_of_day \in {14, 15, 16} THEN 18
            ELSE IF hour_of_day \in {2, 3, 4, 5} THEN 3 ELSE 10
        volume_24h ==
            Max(10, Min((((((120 * vol_volume_factor) \div 2000)
                           * time_volume_factor) \div 10)
                         * Pick(LogNormal04, p + 1)) \div 100, 800))
        price_change_1h == (Pick(StdNormal, p + 2) * volatility) \div 1500
        price_change_24h == (Pick(StdNormal, p + 3) * volatility) \div 400
        market_cap ==
            Max(1500, Min((2800 * (10000 + 2 * Pick(StdNormal, p + 4)))
                          \div 10000, 5000))
        hour_gas == IF hour_of_day \in {14, 15, 16, 21, 22} THEN 160
                    ELSE IF hour_of_day \in {2, 3, 4, 5} THEN 70 ELSE 100
        gas_multiplier == IF day_of_week \in {5, 6} THEN (hour_gas * 8) \div 10
                          ELSE hour_gas
        vol_gas_factor == 4000 + Min(volatility, 2000)             \* in 1/4000
        gas_price_gwei ==
            Max(18, Min((((28 * gas_multiplier * vol_gas_factor) \div 4000)
                         * Pick(LogNormal03, p + 5)) \div 10000, 400))
        volume_ma_7d ==
            IF i >= MA_WINDOW
            THEN <<SumField(data, "volume_24h", i - MA_WINDOW + 1, i), MA_WINDOW>>
            ELSE <<volume_24h * Pick(Uniform0812, p + 6), 100>>
        volatility_ma_7d ==
            IF i >= MA_WINDOW
            THEN <<SumField(data, "volatility", i - MA_WINDOW + 1, i), MA_WINDOW>>
            ELSE <<volatility * Pick(Uniform0713, p + 7), 100>>
    IN [volatility |-> volatility,
        volume_24h |-> volume_24h,
        price_change_1h |-> price_change_1h,
        price_change_24h |-> price_change_24h,
        market_cap |-> market_cap,
        gas_price_gwei |-> gas_price_gwei,
        liquidity_score |-> generated_liquidity_score(volume_24h, market_cap),
        hour_of_day |-> hour_of_day,
        day_of_week |-> day_of_week,
        volume_ma_7d |-> volume_ma_7d,
        volatility_ma_7d |-> volatility_ma_7d,
        price_momentum |-> (price_change_24h * (2000 + volatility)) \div 2000,
        volume_ratio |-> generated_volume_ratio(volume_24h, volume_ma_7d),
        gas_trend |-> generated_gas_trend(gas_price_gwei)]

(* Lines 129-240: the loop *)
RECURSIVE append_rows(_, _, _)
append_rows(data, n, start) ==
    IF Len(data) >= n THEN data
    ELSE append_rows(Append(data, generated_row(Len(data), data, start)),
                     n, start)

generated_rows(n, start) == append_rows(<< >>, n, start)

(* _generate_realistic_training_data(n_samples), called at wall-clock time *)
(* now with the global generator in state rng: the samples in order, each  *)
(* row with its label (line 246 draws one noise value per row)             *)
generate_realistic_training_data(n_samples, now, rng) ==
    LET seeded == Seeded                                        \* line 122
        data == generated_rows(n_samples, start_date(now))
    IN [i \in 1..n_samples |->
          [features |-> data[i],
           optimal_fee |-> calculate_sophisticated_optimal_fee(
                               data[i],
                               Pick(OracleNoise,
                                    seeded + DrawsBefore(n_samples) + i - 1))]]

----------------------------------------------------------------------------
(* The functions of the engine called on their own, on feature vectors     *)
(* that need not come from the live codec: one call per behaviour.         *)

ProbeVolatility == {1, 2, 3, 8, 9, 12, 13, 20, 21, 25}
ProbeVolumeRatio == {<<3, 10>>, <<4, 10>>, <<1, 1>>, <<12, 10>>, <<13, 10>>,
                     <<2, 1>>, <<21, 10>>}
ProbeGasTrend == {<<-8, 10>>, <<-7, 10>>, <<0, 1>>, <<4, 10>>, <<5, 10>>,
                  <<6, 10>>, <<7, 10>>, <<8, 10>>}
ProbePriceChange == {-16, -15, 0, 15, 16}

Probes == [volatility : ProbeVolatility, volume_ratio : ProbeVolumeRatio,
           gas_trend : ProbeGasTrend, price_change_24h : ProbePriceChange]

ModelKinds == MemberSet \cup {"other"}

ProgramIdle == UNCHANGED <<phase, models, scalers, feature_columns, is_trained,
                           best_model_name, disk, fetching, queued, trainers,
                           running, trainRuns, lazyRuns, last, trainLog,
                           published>>

FnInit ==
    /\ phase = "init"
    /\ models = initialize_models
    /\ scalers = initialize_scalers
    /\ feature_columns = "codec"
    /\ is_trained = FALSE
    /\ best_model_name = NoName
    /\ disk = EmptyDisk
    /\ fetching = 0
    /\ queued = 0
    /\ trainers = {}
    /\ running = 0
    /\ trainRuns = 0
    /\ lazyRuns = 0
    /\ last = NoResult
    /\ trainLog = NoTrain
    /\ published = {}
    /\ probe = NoProbe
    /\ answer = NoAnswer

(* _classify_market_condition(features) *)
Classify(x) ==
    /\ probe' = x
    /\ answer' = [NoAnswer EXCEPT !.fn = "classify",
                                  !.label = classify_market_condition(x)]
    /\ ProgramIdle

(* _calculate_model_confidence(model_name, features) *)
Score(model_name, x) ==
    /\ probe' = x
    /\ answer' = [NoAnswer EXCEPT !.fn = "score", !.name = model_name,
                     !.value = calculate_model_confidence(model_name, x)]
    /\ ProgramIdle

(* Lines 643-650 and 678: the headline confidence when the members in      *)
(* avail predicted and best is the recorded best model                     *)
HeadlineConfidence(best, avail, x) ==
    LET e == [InitEnsemble EXCEPT !.best_model_name = best]
        preds == [m \in avail |-> 0]
        confs == [m \in avail |-> calculate_model_confidence(m, x)]
    IN /\ probe' = x
       /\ answer' = [NoAnswer EXCEPT !.fn = "headline", !.name = best,
                        !.value = RoundTo(primary_confidence(e, preds, confs), 1)]
       /\ ProgramIdle

(* _fallback_prediction()["confidence"] *)
FallbackConfidence ==
    /\ probe' = probe
    /\ answer' = [NoAnswer EXCEPT !.fn = "fallback",
                     !.value = fallback_prediction(Ghost(InitEnsemble, "none")).confidence]
    /\ ProgramIdle

(* _calculate_sophisticated_optimal_fee(row), the noise being what line   *)
(* 345 draws                                                               *)
OracleRows == [volatility : {50, 500, 900, 3000, 30000},
               volume_ratio : {<<5, 10>>, <<7, 10>>, <<1, 1>>, <<13, 10>>,
                               <<2, 1>>},
               gas_trend : {<<-3, 10>>, <<0, 1>>, <<3, 10>>, <<1, 1>>},
               hour_of_day : {3, 12, 15, 21},
               day_of_week : {0, 5},
               liquidity_score : {<<1, 2>>, <<3, 1>>, <<9, 1>>},
               price_momentum : {-500, 100},
               price_change_24h : {-2000, 50, 500},
               gas_price_gwei : {28}]

NoiseProbes == {-30000000, -150000, 0, 30000000}

Oracle(row, noise) ==
    /\ probe' = probe
    /\ answer' = [NoAnswer EXCEPT
                    !.fn = "oracle", !.row = row, !.noise = noise,
                    !.fee = calculate_sophisticated_optimal_fee(row, noise)]
    /\ ProgramIdle

(* _generate_realistic_training_data(n_samples), a first and then a second *)
(* call with the same n_samples, each at its own moment                    *)
(* With so few rows every moving average is the drawn one (line 224); the  *)
(* averaged branch of line 219 needs more than MA_WINDOW rows.             *)
SampleSizes == 1..MaxSamples

GenClocks == Clocks \cup {[hour |-> 14, day |-> 2]}

PriorDraws == {Seeded, 5}

CanGenerate ==
    \/ answer.fn = "none"
    \/ answer.fn = "generate" /\ Len(answer.calls) = 1

Generate(n_samples, now, rng) ==
    /\ answer.fn = "generate" => n_samples = Len(answer.calls[1].samples)
    /\ probe' = probe
    /\ answer' = [answer EXCEPT
                    !.fn = "generate",
                    !.calls = Append(@,
                        [now |-> now, rng |-> rng,
                         samples |-> generate_realistic_training_data(
                                         n_samples, now, rng)])]
    /\ ProgramIdle

(* _extract_features_from_market_data(market_data) at wall-clock time now *)
EncodeProbes ==
    Snapshots \cup
    { Rec(TRUE, vol, v24, 2, mc, gas) :
        vol \in {1, 5}, v24 \in {0, 500}, mc \in {0, 1, 15000},
        gas \in {-1, 18, 400} }

Encode(md, now) ==
    /\ probe' = probe
    /\ answer' = [NoAnswer EXCEPT
                    !.fn = "encode", !.md = md, !.now = now,
                    !.x = extract_features_from_market_data(md, now)]
    /\ ProgramIdle

(* _generate_production_reasoning(features, predictions, final_prediction) *)
ExplainRows == [volatility : {1, 5, 9, 16},
                volume_ratio : {<<1, 2>>, <<1, 1>>, <<2, 1>>},
                gas_trend : {<<0, 1>>},
                hour_of_day : {3, 12, 15},
                day_of_week : {0},
                liquidity_score : {<<3, 1>>},
                price_momentum : {0},
                price_change_24h : {0},
                gas_price_gwei : {18, 30, 90}]

ExplainPreds ==
    { [m \in {"random_forest"} |-> 312],
      [m \in {"random_forest", "gradient_boosting"} |->
          IF m = "random_forest" THEN 312 ELSE 450],
      [m \in {"random_forest", "gradient_boosting"} |->
          IF m = "random_forest" THEN 183 ELSE 2600],
      [m \in MemberSet |-> PredVals[Idx(m)]],
      EmptyMap }

ExplainFees == {<<200, 1>>, <<300, 1>>, <<381, 1>>, <<2500, 1>>}

Explain(x, preds, final) ==
    /\ probe' = probe
    /\ answer' = [NoAnswer EXCEPT
                    !.fn = "explain", !.row = x, !.preds = preds,
                    !.final = final,
                    !.reasons = reasoning_categories(x, preds, final),
                    !.text = join_reasons(
                                 reasoning_categories(x, preds, final))]
    /\ ProgramIdle

Uncalled == answer.fn = "none"

FnNext ==
    \/ Uncalled /\ \E x \in Probes : Classify(x)
    \/ Uncalled /\ \E k \in ModelKinds, x \in Probes : Score(k, x)
    \/ Uncalled /\ \E b \in MemberSet \cup {NoName},
                      a \in (SUBSET MemberSet) \ {{}},
                      x \in Probes : HeadlineConfidence(b, a, x)
    \/ Uncalled /\ FallbackConfidence
    \/ Uncalled /\ \E row \in OracleRows, noise \in NoiseProbes :
                      Oracle(row, noise)
    \/ CanGenerate /\ \E n \in SampleSizes, now \in GenClocks,
                         rng \in PriorDraws : Generate(n, now, rng)
    \/ Uncalled /\ \E md \in EncodeProbes, now \in Clocks : Encode(md, now)
    \/ Uncalled /\ \E x \in ExplainRows, preds \in ExplainPreds,
                      final \in ExplainFees : Explain(x, preds, final)

FnSpec == FnInit /\ [][FnNext]_vars
----------------------------------------------------------------------------
(* Properties *)

Returned == last.kind # "none"

HasSubRecord(md) == md.top = "dict" /\ md.cg = "rec"

IsFallbackRecord(r) ==
    /\ r.kind = "fallback"
    /\ r.primary_model = "fallback"
    /\ r.recommended_fee = BASE_FEE_RATE * 10
    /\ r.confidence = FALLBACK_CONFIDENCE
    /\ r.reasoning = <<"fallback_text">>

WeightedMean(preds, confs) ==
    <<SumOver([m \in DOMAIN preds |-> preds[m] * confs[m]], DOMAIN preds),
      SumOver(confs, DOMAIN confs)>>

PlainMean(preds) == <<SumOver(preds, DOMAIN preds), Cardinality(DOMAIN preds)>>

BestPredicted(r) == r.primary_model \in DOMAIN r.g.raw

RECURSIVE Gcd(_, _)
Gcd(a, b) == IF b = 0 THEN a ELSE Gcd(b, a % b)

(* A fraction in lowest terms, and equality of two fractions through it *)
Lowest(q) == LET d == Gcd(Abs(q[1]), q[2]) IN <<q[1] \div d, q[2] \div d>>

SameF(a, b) == Lowest(a) = Lowest(b)

(* C1: predict_optimal_fee never lets a failure reach its caller: whatever *)
(* raises inside the call (the fetch, lazy training, blending, classifying *)
(* or explaining), what the caller receives is a result record, either a   *)
(* model-based one or the fallback, never an exception.                    *)
C1_PredictNeverRaises ==
    /\ last.kind \in {"none", "model", "fallback"}
    /\ last.kind = "fallback" => IsFallbackRecord(last)

(* C1 witness: a stage after the member loop raised, or the fetch raised,  *)
(* and the caller received the fallback record.                            *)
C1_Witness ==
    /\ last.kind = "fallback"
    /\ last.g.cause \in {"fetch", "blend", "reasoning", "classify"}

(* C2 as stated: a snapshot without a price field (no sub-record, or a     *)
(* sub-record that lacks the spot price) always gets the fallback record.  *)
C2_NoPriceGivesFallback ==
    (/\ Returned
     /\ last.g.md.top = "dict"
     /\ ~(HasSubRecord(last.g.md) /\ last.g.md.price))
    => IsFallbackRecord(last)

(* C3 as stated: every prediction that evaluates members computes from an  *)
(* artifact set that was published as a whole, by the constructor or by a  *)
(* completed training run, never from a mixture of two sets.               *)
C3_PredictionUsesPublishedSet ==
    (Returned /\ last.g.evaluated) => last.g.used \in published

(* C4 as stated: a training run that raises partway leaves models,         *)
(* scalers, best_model_name and is_trained as they were before the run.    *)
C4_FailedRunRestores ==
    (/\ trainLog.caller = "retrain"
     /\ trainLog.status = "raised"
     /\ trainLog.failed \in MemberSet)
    => trainLog.after = trainLog.before

(* C5: the member loop of predict runs only on a trained ensemble; once    *)
(* is_trained is true it stays true, and a predict call on a trained       *)
(* ensemble starts no training run, refits no model or scaler and writes   *)
(* nothing to the model directory.  (The constructor returns only with     *)
(* is_trained true, so no reachable predict call takes the lazy branch.)   *)
C5_TrainedStaysTrained ==
    /\ []((Returned /\ last.g.evaluated) => last.g.trained)
    /\ [][is_trained =>
            /\ is_trained'
            /\ lazyRuns' = lazyRuns
            /\ last' # NoResult =>
                 UNCHANGED <<models, scalers, best_model_name, disk,
                             trainRuns>>]_vars

(* C5 witness: a predict call returned a model-based record on a trained   *)
(* ensemble, after an earlier training run, and no lazy run was started.   *)
C5_Witness ==
    /\ last.kind = "model"
    /\ last.g.trained
    /\ is_trained
    /\ trainRuns >= 1
    /\ lazyRuns = 0

(* C6: at most one train_models call is in progress at any time, and no    *)
(* more than one lazily triggered run is ever started.  train_models has   *)
(* no await, so on the one event-loop thread a run, once begun, ends       *)
(* before any other coroutine is resumed.                                  *)
C6_OneTrainingAtATime ==
    /\ Cardinality(trainers) <= 1
    /\ lazyRuns <= 1

(* C6 witness: a retraining is partway through its members while another  *)
(* retrain task or a predict call is waiting.                              *)
C6_Witness ==
    /\ \E tr \in trainers : tr.kind = "retrain" /\ tr.pc = "gb"
    /\ queued + fetching >= 1

(* C7 as stated: when some but not all members fail in the member loop,    *)
(* the call returns a model-based record whose all_predictions holds       *)
(* exactly the members that did not fail.                                  *)
C7_ProperSubsetIsolated ==
    (/\ Returned
     /\ last.g.evaluated
     /\ last.g.cause \in {"none", "no_member"}
     /\ last.g.failed # {}
     /\ last.g.failed # MemberSet)
    => /\ last.kind = "model"
       /\ DOMAIN last.all_predictions = MemberSet \ last.g.failed

(* C8 as stated: when one member's training raises, train_models still     *)
(* returns, with the metrics of the other members.                         *)
C8_TrainingIsolatesMember ==
    trainLog.failed \in MemberSet
    => /\ trainLog.status = "ok"
       /\ DOMAIN trainLog.results = MemberSet \ {trainLog.failed}

(* C9: when the member loop ends with no prediction at all (every member   *)
(* absent or failed), predict returns the fallback record: base fee,       *)
(* confidence 0.4, primary_model "fallback", the fixed reasoning text.     *)
C9_NoMemberGivesFallback ==
    (Returned /\ last.g.evaluated /\ DOMAIN last.g.raw = {})
    => IsFallbackRecord(last)

(* C9 witness: the member loop ran, every member was absent or failed,     *)
(* and the call returned.                                                  *)
C9_Witness ==
    /\ Returned
    /\ last.g.evaluated
    /\ last.g.cause = "no_member"
    /\ last.g.failed \cup last.g.absent = MemberSet
    /\ last.g.failed # {}

(* C10 as stated: the headline fee is the best member's raw prediction     *)
(* when it predicted, else the confidence-weighted mean of the available   *)
(* predictions.                                                            *)
C10_HeadlineWeightedMean ==
    last.kind = "model" =>
      IF BestPredicted(last)
      THEN EqF(last.g.headline, <<last.g.raw[last.primary_model], 1>>)
      ELSE SameF(last.g.headline, WeightedMean(last.g.raw, last.g.conf))

(* C10 amended: the headline fee is the best member's raw prediction when  *)
(* it predicted, else the plain arithmetic mean of the available           *)
(* predictions.                                                            *)
C10_HeadlinePlainMean ==
    last.kind = "model" =>
      IF BestPredicted(last)
      THEN EqF(last.g.headline, <<last.g.raw[last.primary_model], 1>>)
      ELSE EqF(last.g.headline, PlainMean(last.g.raw))

(* C10 witness: the best member did not predict, two or more others did,   *)
(* and the plain and the weighted mean differ.                             *)
C10_Witness ==
    /\ last.kind = "model"
    /\ ~BestPredicted(last)
    /\ Cardinality(DOMAIN last.g.raw) >= 2
    /\ ~SameF(PlainMean(last.g.raw), WeightedMean(last.g.raw, last.g.conf))

(* C11: in every model-based record, ensemble_prediction is the            *)
(* confidence-weighted mean of the available members' predictions          *)
(* (rounded to four decimals in the record), whichever member is primary.  *)
C11_EnsembleIsWeightedMean ==
    last.kind = "model" =>
      /\ SameF(last.g.ensemble, WeightedMean(last.g.raw, last.g.conf))
      /\ last.ensemble_prediction
           = Round4(WeightedMean(last.g.raw, last.g.conf))

(* C11 witness: the best member predicted and is the headline, two or more *)
(* members predicted, and the weighted mean is not the headline value.     *)
C11_Witness ==
    /\ last.kind = "model"
    /\ BestPredicted(last)
    /\ Cardinality(DOMAIN last.g.raw) >= 2
    /\ ~SameF(last.g.headline, WeightedMean(last.g.raw, last.g.conf))
    /\ ~SameF(PlainMean(last.g.raw), WeightedMean(last.g.raw, last.g.conf))

(* C12: in every model-based record, recommended_fee lies in [0.05, 2.5]:  *)
(* it is the headline prediction, replaced by the nearer end of the        *)
(* interval when it lies outside, rounded to four decimals.                *)
C12_FeeWithinBounds ==
    last.kind = "model" =>
      /\ last.recommended_fee >= FEE_MIN * 10
      /\ last.recommended_fee <= FEE_MAX * 10
      /\ last.recommended_fee =
           IF Lt(last.g.headline, <<FEE_MIN, 1>>) THEN FEE_MIN * 10
           ELSE IF Gt(last.g.headline, <<FEE_MAX, 1>>) THEN FEE_MAX * 10
           ELSE Round4(last.g.headline)

(* C12 witness: a headline prediction above 2.5 was returned as 2.5 *)
C12_Witness ==
    /\ last.kind = "model"
    /\ Gt(last.g.headline, <<FEE_MAX, 1>>)
    /\ last.recommended_fee = FEE_MAX * 10

(* C13 as stated: every returned record, the fallback record included,     *)
(* carries ensemble_prediction, all_predictions, model_confidences and     *)
(* features_used besides the five common fields and the timestamp.         *)
C13_EveryRecordComplete ==
    Returned => last.extras

(* The constructor's _load_models has returned and nothing has been        *)
(* trained to the end since: either the constructor is done without        *)
(* training, or its own train_models call is still in progress.            *)
JustLoaded ==
    \/ phase = "ready" /\ trainRuns = 0
    \/ \E tr \in trainers : tr.kind = "ctor"

(* The ensemble as _load_models left it (the disk is as it was found) *)
LoadedEnsemble ==
    IF phase = "ready" THEN Ensemble
    ELSE (CHOOSE tr \in trainers : tr.kind = "ctor").before

SomeFile(d, f) ==
    \E m \in MemberSet : d.model[m] = f \/ d.scaler[m] = f

(* C14 as stated: when metadata.json is missing, or the feature_columns    *)
(* it records differ in names or order from the codec's, the load leaves   *)
(* the ensemble untrained and keeps the codec's feature_columns.           *)
C14_LoadFailsSoft ==
    (/\ JustLoaded
     /\ \/ disk.meta.st = "missing"
        \/ disk.meta.st = "ok" /\ disk.meta.cols \in {"foreign", "reordered"})
    => /\ ~LoadedEnsemble.is_trained
       /\ LoadedEnsemble.feature_columns = "codec"

(* C15 as stated: when metadata.json is present but some member's model    *)
(* file or scaler file is missing or unreadable, the load ends with        *)
(* is_trained false.                                                       *)
C15_ReadFailureMeansUntrained ==
    (/\ JustLoaded
     /\ disk.meta.st = "ok"
     /\ SomeFile(disk, MissingFile) \/ SomeFile(disk, CorruptFile))
    => ~LoadedEnsemble.is_trained

(* C16: a write that fails inside _save_models does not fail the training  *)
(* run: train_models returns the metrics of all members, is_trained is     *)
(* true and best_model_name is set in memory; and every prediction that    *)
(* evaluates members uses the models in memory, whatever is on disk.       *)
C16_SaveFailureNotFatal ==
    /\ trainLog.save # NoSaveFault =>
         /\ trainLog.status = "ok"
         /\ DOMAIN trainLog.results = MemberSet
         /\ trainLog.after.is_trained
         /\ trainLog.after.best_model_name \in MemberSet
         /\ Ensemble = trainLog.after
         /\ is_trained
    /\ (Returned /\ last.g.evaluated) =>
         /\ last.g.used = ArtSet(Ensemble)
         /\ last.g.trained

(* C16 witness: a retraining whose save failed has returned its metrics    *)
(* and the disk does not hold what is in memory.                           *)
C16_Witness ==
    /\ trainLog.save # NoSaveFault
    /\ trainLog.status = "ok"
    /\ trainLog.caller = "retrain"
    /\ phase = "ready"
    /\ \E m \in MemberSet : disk.model[m] # models[m]
                            \/ disk.scaler[m] # scalers[m]

(* What a new process would have in memory after loading this directory *)
Reloaded == load_models(InitEnsemble, disk)

SameForecast(a, b) ==
    /\ a.kind = b.kind
    /\ a.all_predictions = b.all_predictions
    /\ a.primary_model = b.primary_model
    /\ a.recommended_fee = b.recommended_fee

(* C17: after a training run whose save wrote every file, loading the      *)
(* directory gives for every member the same model and scaler and the      *)
(* same best_model_name and feature_columns as in memory, so a prediction  *)
(* from the loaded ensemble equals the one from memory for every snapshot. *)
C17_SaveLoadRoundTrip ==
    (trainLog.status = "ok" /\ trainLog.save = NoSaveFault) =>
      /\ Reloaded.is_trained
      /\ Reloaded.models = models
      /\ Reloaded.scalers = scalers
      /\ Reloaded.best_model_name = best_model_name
      /\ Reloaded.feature_columns = feature_columns
      /\ \A md \in {sn \in Snapshots : IsRec(sn)} :
           LET x == extract_features_from_market_data(md, DefaultClock)
           IN SameForecast(predict_body(Reloaded, x, NoInjection),
                           predict_body(Ensemble, x, NoInjection))

(* C17 witness: a retraining replaced what an earlier save had left on     *)
(* disk, with another best model, and the save wrote every file.           *)
C17_Witness ==
    /\ trainLog.status = "ok"
    /\ trainLog.save = NoSaveFault
    /\ trainLog.caller = "retrain"
    /\ trainLog.before.is_trained
    /\ trainLog.before.best_model_name # trainLog.after.best_model_name
    /\ disk.meta.stamp >= 2

(* C18: after a training run that returned, best_model_name is a member    *)
(* of the result map with the largest test R2, and among several with      *)
(* that R2 the first in the order random_forest, gradient_boosting,        *)
(* neural_network.                                                         *)
C18_BestIsFirstMaximum ==
    trainLog.status = "ok" =>
      LET res == trainLog.results
          b == trainLog.after.best_model_name
      IN /\ b \in DOMAIN res
         /\ \A o \in DOMAIN res : res[o] <= res[b]
         /\ \A o \in DOMAIN res : res[o] = res[b] => Idx(b) <= Idx(o)
         /\ best_model_name = b

(* C18 witness: two members tie for the largest R2 and the earlier one,    *)
(* which is not the first member, was chosen.                              *)
C18_Witness ==
    /\ trainLog.status = "ok"
    /\ DOMAIN trainLog.results = MemberSet
    /\ trainLog.results["gradient_boosting"] = trainLog.results["neural_network"]
    /\ trainLog.results["random_forest"] < trainLog.results["gradient_boosting"]
    /\ best_model_name = "gradient_boosting"

(* The decision table as an ordered list of rules *)
RuleLabels == <<"extreme_volatility", "high_volatility_congested",
                "high_volatility", "stable_liquid", "stable",
                "network_congested", "moderate">>

RuleHolds(i, x) ==
    CASE i = 1 -> x.volatility > 20 /\ Abs(x.price_change_24h) > 15
      [] i = 2 -> x.volatility > 12 /\ Gt(x.gas_trend, <<4, 10>>)
      [] i = 3 -> x.volatility > 8
      [] i = 4 -> x.volatility < 2 /\ Gt(x.volume_ratio, <<12, 10>>)
      [] i = 5 -> x.volatility < 3
      [] i = 6 -> Gt(x.gas_trend, <<6, 10>>)
      [] i = 7 -> TRUE

FirstRule(x) ==
    CHOOSE i \in 1..Len(RuleLabels) :
      RuleHolds(i, x) /\ \A j \in 1..(i - 1) : ~RuleHolds(j, x)

(* C19: the classifier returns, for every feature vector, the label of the *)
(* first rule that holds in the order extreme_volatility,                  *)
(* high_volatility_congested, high_volatility, stable_liquid, stable,      *)
(* network_congested, moderate; so volatility > 20 with |change| > 15 is   *)
(* extreme_volatility, volatility < 2 is stable or stable_liquid, and      *)
(* network_congested comes only with 3 <= volatility <= 8.                 *)
C19_ClassifierFirstMatch ==
    answer.fn = "classify" =>
      /\ answer.label = RuleLabels[FirstRule(probe)]
      /\ (probe.volatility > 20 /\ Abs(probe.price_change_24h) > 15)
           => answer.label = "extreme_volatility"
      /\ probe.volatility < 2 => answer.label \in {"stable", "stable_liquid"}
      /\ answer.label = "network_congested"
           => (3 <= probe.volatility /\ probe.volatility <= 8)

(* C19 witness: a quiet market with volume_ratio above 1.2 was classified  *)
(* stable_liquid, the rule that comes before stable.                       *)
C19_Witness ==
    /\ answer.fn = "classify"
    /\ answer.label = "stable_liquid"
    /\ probe.volatility < 2

(* C20: every per-model confidence, for the three members and for any      *)
(* other model name, lies in [0.4, 0.95]; the headline confidence of a     *)
(* record (best member's, the mean of the available members', or the       *)
(* fallback's) lies in [0.3, 0.95].                                        *)
C20_ConfidenceWithinBounds ==
    /\ answer.fn = "score" => (400 <= answer.value /\ answer.value <= 950)
    /\ answer.fn \in {"headline", "fallback"}
         => (300 <= answer.value /\ answer.value <= 950)

(* C20 witness: an unknown model kind with every penalty applied *)
C20_Witness ==
    /\ answer.fn = "score"
    /\ answer.name = "other"
    /\ probe.volatility > 20
    /\ Gt(probe.volume_ratio, <<2, 1>>)
    /\ Gt(AbsF(probe.gas_trend), <<7, 10>>)
    /\ answer.value < 500

(* C21: for every feature vector and every value of the additive noise the *)
(* optimal-fee oracle returns a fee in [0.05, 2.5]; so does every label of *)
(* a generated data set.                                                   *)
C21_OracleWithinBounds ==
    /\ answer.fn = "oracle"
         => /\ ~Lt(answer.fee, <<50, 1>>)
            /\ ~Gt(answer.fee, <<2500, 1>>)
    /\ answer.fn = "generate"
         => \A c \in 1..Len(answer.calls) :
              \A i \in 1..Len(answer.calls[c].samples) :
                LET fee == answer.calls[c].samples[i].optimal_fee
                IN ~Lt(fee, <<50, 1>>) /\ ~Gt(fee, <<2500, 1>>)

(* C21 witness: a feature vector whose weighted factors alone, with no     *)
(* noise, exceed 2.5, returned as exactly 2.5                              *)
C21_Witness ==
    /\ answer.fn = "oracle"
    /\ answer.noise = 0
    /\ Gt(noisy_fee(answer.row, answer.noise), <<2500, 1>>)
    /\ answer.fee = <<2500, 1>>

(* C22: the generator is deterministic in its seed: two calls with the     *)
(* same n_samples, made at any two moments and after any use of the random *)
(* number generator, return the same sequence of samples, hour_of_day,     *)
(* day_of_week and the label included.                                     *)
C22_GeneratorDeterministic ==
    (answer.fn = "generate" /\ Len(answer.calls) = 2)
        => answer.calls[1].samples = answer.calls[2].samples

(* What the live codec derives from the raw inputs of a generated row *)
CodecOn(row) ==
    extract_features_from_market_data(
        Rec(TRUE, 0, row.volume_24h, 0, row.market_cap, row.gas_price_gwei),
        DefaultClock)

(* C24: for equal raw inputs the generator and the live codec compute      *)
(* equal liquidity_score, volume_ratio and gas_trend: the codec, given the *)
(* raw inputs of a generated row, derives the row's liquidity_score and    *)
(* gas_trend, and its volume_ratio whenever the moving averages agree; the *)
(* generator's formulas, given the raw inputs of an encoded snapshot with  *)
(* a positive market cap, give the codec's values, 1.0 for a zero moving   *)
(* average included.                                                       *)
C24_GeneratorMatchesCodec ==
    /\ answer.fn = "generate"
         => \A c \in 1..Len(answer.calls) :
              \A i \in 1..Len(answer.calls[c].samples) :
                LET row == answer.calls[c].samples[i].features
                    x == CodecOn(row)
                IN /\ SameF(x.liquidity_score, row.liquidity_score)
                   /\ SameF(x.gas_trend, row.gas_trend)
                   /\ SameF(x.volume_ma_7d, row.volume_ma_7d)
                        => SameF(x.volume_ratio, row.volume_ratio)
    /\ (answer.fn = "encode" /\ answer.x.ok)
         => LET x == answer.x
            IN /\ SameF(x.gas_trend, generated_gas_trend(x.gas_price_gwei))
               /\ SameF(x.volume_ratio,
                        generated_volume_ratio(x.volume_24h, x.volume_ma_7d))
               /\ x.market_cap > 0
                    => SameF(x.liquidity_score,
                             generated_liquidity_score(x.volume_24h,
                                                       x.market_cap))

(* C24 witness: a generated row whose moving average is the one the codec  *)
(* assumes (0.92 of the volume) and whose gas price is off the baseline    *)
C24_Witness ==
    /\ answer.fn = "generate"
    /\ \E c \in 1..Len(answer.calls) :
         \E i \in 1..Len(answer.calls[c].samples) :
           LET row == answer.calls[c].samples[i].features
           IN /\ SameF(CodecOn(row).volume_ma_7d, row.volume_ma_7d)
              /\ row.gas_price_gwei # 28
              /\ row.volume_ratio # <<1, 1>>

(* C23: for every snapshot with a price/volume sub-record, one whose       *)
(* market_cap is 0 or missing included, the codec yields liquidity_score = *)
(* volume_24h / max(market_cap, 1) * 100 and gas_trend = (gas_price_gwei - *)
(* 28) / 372, the gas price being 28 when none is supplied.                *)
C23_CodecDerivedFields ==
    (answer.fn = "encode" /\ IsRec(answer.md))
        => LET md == answer.md
               gas == IF md.gas = -1 THEN 28 ELSE md.gas
           IN /\ answer.x.ok
              /\ SameF(answer.x.liquidity_score,
                       <<md.volume_24h * 100, Max(md.market_cap, 1)>>)
              /\ SameF(answer.x.gas_trend, <<gas - 28, 372>>)

CategoryOrder == <<"agreement", "volatility", "volume", "network", "time",
                   "deviation">>

Rank(c) == CHOOSE i \in 1..Len(CategoryOrder) : CategoryOrder[i] = c

(* C25: whatever the feature vector, the prediction map and the final fee, *)
(* the sentences of the reasoning come in the order model agreement,       *)
(* volatility, volume/liquidity, network congestion, time of day,          *)
(* deviation from the base fee: at most one sentence per category, none of *)
(* a later category before one of an earlier category.                     *)
C25_ReasoningInOrder ==
    answer.fn = "explain"
        => /\ \A i \in 1..Len(answer.reasons) :
                \E k \in 1..Len(CategoryOrder) :
                    answer.reasons[i] = CategoryOrder[k]
           /\ \A i \in 1..Len(answer.reasons) :
                \A j \in 1..Len(answer.reasons) :
                    i < j => Rank(answer.reasons[i]) < Rank(answer.reasons[j])

(* C25 witness: a call whose reasoning has a sentence of every category *)
C25_Witness ==
    /\ answer.fn = "explain"
    /\ answer.reasons = CategoryOrder

(* C26: the reasoning of a non-fallback result is a non-empty list of      *)
(* sentences ending with the deviation-from-base-fee statement, joined     *)
(* with ". " and closed by one period, so the text is never just ".".      *)
C26_ReasoningEndsWithDeviation ==
    (answer.fn = "explain" /\ answer.preds # EmptyMap)
        => /\ answer.reasons # << >>
           /\ answer.reasons[Len(answer.reasons)] = "deviation"
           /\ Len(answer.text) = 2 * Len(answer.reasons)
           /\ answer.text # <<".">>

Prior(model_name) ==
    CASE model_name = "random_forest" -> 870
      [] model_name = "gradient_boosting" -> 840
      [] model_name = "neural_network" -> 810
      [] OTHER -> 750

(* C29: the per-model confidence is the model's prior (0.87, 0.84, 0.81,   *)
(* 0.75 for any other name) plus an adjustment between -0.29 and +0.05     *)
(* that is the same for every model, so the clamp to [0.4, 0.95] never     *)
(* changes the value and random_forest scores above gradient_boosting,     *)
(* which scores above neural_network.                                      *)
C29_ConfidenceIsPriorPlusAdjustment ==
    answer.fn = "score"
        => LET adjustment == answer.value - Prior(answer.name)
           IN /\ -290 <= adjustment /\ adjustment <= 50
              /\ \A k \in ModelKinds :
                    calculate_model_confidence(k, probe) = Prior(k) + adjustment
              /\ calculate_model_confidence("random_forest", probe)
                    > calculate_model_confidence("gradient_boosting", probe)
              /\ calculate_model_confidence("gradient_boosting", probe)
                    > calculate_model_confidence("neural_network", probe)

(* C29 witness: the largest adjustment on the highest prior, 0.92 *)
C29_Witness ==
    /\ answer.fn = "score"
    /\ answer.name = "random_forest"
    /\ probe.volatility < 2
    /\ answer.value = 920

(* C27: in every non-fallback result primary_model names a member that is  *)
(* a key of all_predictions and recommended_fee is that member's           *)
(* prediction clamped to [0.05, 2.5], also when the best_model_name member *)
(* failed or is absent for the call.                                       *)
C27_PrimaryModelPredicted ==
    last.kind = "model"
        => /\ last.primary_model \in DOMAIN last.all_predictions
           /\ last.recommended_fee
                = Round4(Clamp(<<last.g.raw[last.primary_model], 1>>))

(* The feature vector the codec gave the call that returned last *)
LiveFeatures == extract_features_from_market_data(last.g.md, DefaultClock)

(* C28: for every snapshot the live codec accepts volume_ratio is 1/0.92   *)
(* when volume_24h > 0 and 1.0 otherwise; so no live prediction is         *)
(* classified stable_liquid, none carries the extreme-volume-ratio         *)
(* confidence penalty and no live reasoning has a volume/liquidity         *)
(* sentence.                                                               *)
C28_LiveVolumeRatioTwoValues ==
    last.kind = "model"
        => /\ LiveFeatures.volume_ratio
                = IF last.g.md.volume_24h > 0
                  THEN <<last.g.md.volume_24h * 100, last.g.md.volume_24h * 92>>
                  ELSE <<1, 1>>
           /\ last.market_condition # "stable_liquid"
           /\ \A m \in DOMAIN last.model_confidences :
                last.model_confidences[m]
                  = Prior(m) + confidence_adjustments(
                                   [LiveFeatures EXCEPT !.volume_ratio = <<1, 1>>])
           /\ \A i \in 1..Len(last.reasoning) : last.reasoning[i] # "volume"

(* C28 witness: a live prediction on a market with volatility below 2,     *)
(* where a volume ratio above 1.2 would have meant stable_liquid           *)
C28_Witness ==
    /\ last.kind = "model"
    /\ last.g.md.volatility < 2
    /\ last.g.md.volume_24h > 0
    /\ last.market_condition = "stable"

(* C30: once the constructor has completed is_trained is true and stays    *)
(* true; so predict never takes its lazy-training branch on a constructed  *)
(* predictor, and a predict call that returns the fallback for an          *)
(* unavailable snapshot leaves the ensemble as it found it.                *)
C30_ConstructedIsTrained ==
    /\ phase = "ready" => (is_trained /\ lazyRuns = 0)
    /\ (last.kind = "fallback" /\ last.g.cause = "unavailable")
         => /\ last.g.trained
            /\ last.g.used = ArtSet(Ensemble)

(* C30 witness: a constructed predictor that trained in its constructor    *)
(* answers a call on an unavailable snapshot with the fallback             *)
C30_Witness ==
    /\ phase = "ready"
    /\ is_trained
    /\ trainRuns > 0
    /\ last.kind = "fallback"
    /\ last.g.cause = "unavailable"
====
